---- MODULE Spec2Model ----
(***************************************************************************)
(* Verification model of lasthyphen/djtx-tester:                           *)
(*   - server/network.go : localNetwork (newNetwork, start,               *)
(*                         waitForHealthy, stop)                           *)
(*   - client/client.go  : client.StreamStatus receive routine,           *)
(*                         client.Close, isClientCanceled                  *)
(* Each goroutine is a process with a program counter; one action is one   *)
(* step between two points at which another goroutine can observe the      *)
(* shared memory (no lock protects the fields of localNetwork).            *)
(***************************************************************************)
EXTENDS Integers, Sequences, FiniteSets, TLC

\* ------------------------------------------------------------------ bounds
\* largest number of node configurations in cfg.NodeConfigs
MaxNodes == 2
\* number of goroutines that may call localNetwork.stop()
NumStoppers == 2

\* largest number of snapshots the server pushes on one status stream
MaxMsgs == 2
\* number of client.Close() calls
MaxCloses == 2
\* number of termination signals sent to the host process
MaxSignals == 2

\* ------------------------------------------------------- program constants
\* capacity of errc: make(chan error, 1)
ErrcCap == 1
\* capacity of ch: make(chan *rpcpb.ClusterInfo, 1)
ChCap == 1
\* capacity of sigc: make(chan os.Signal, 1)
SigcCap == 1

VARIABLES
    \* ---- localNetwork (server/network.go)
    nodeNames,        \* lc.nodeNames : sequence of node names
    nodeInfos,        \* lc.nodeInfos : name -> [Name, Uri, Id]
    apiClis,          \* lc.apiClis   : set of names that have an API client
    nodes,            \* lc.nodes     : key set of the map (a nil map has none)
    nw,               \* lc.nw        : "nil" or "nw"
    readyc,           \* number of close(lc.readyc) executed (0 = open)
    readycCloseOnce,  \* "fresh" | "done"
    stopc,            \* number of close(lc.stopc) executed (0 = open)
    donec,            \* number of close(lc.donec) executed (0 = open)
    errc,             \* lc.errc : buffered channel, contents as a sequence
    errcSends,        \* number of sends on lc.errc executed by start()
    stopOnce,         \* "fresh" | "running" | "done"
    \* ---- goroutine running start()
    startPc,          \* position of start()/waitForHealthy()
    startErr,         \* err of start(): "none" while undecided, "nil" on success
    selReady,         \* cases that were ready when the select resolved
    rangeTodo,        \* names the range loop has not visited yet
    rangeName,        \* name of the current loop iteration
    \* ---- external collaborator (network.Network) and context timer
    hc,               \* channel of nw.Healthy: "unset"|"pending"|"never"|"nil"|"err"|"received"
    timer,            \* context.WithTimeout: "unset"|"running"|"fired"|"cancelled"
    nwStopCalls,      \* number of invocations of nw.Stop
    nwStopReturns,    \* number of returns of nw.Stop
    \* ---- goroutines calling stop()
    stopPc,           \* caller -> position in stop()
    crashed,          \* the process has exited on an unrecovered panic
    \* ---- client (client/client.go): StreamStatus and its receive routine
    ctxErr,           \* ctx.Err() of the caller's context: "nil"|"Canceled"|"DeadlineExceeded"
    streamCtxErr,     \* stream.Context().Err()
    closed,           \* number of close(c.closed) executed (0 = open)
    closeCalls,       \* number of client.Close() calls made
    ch,               \* the channel StreamStatus returns, contents as a sequence
    chCloses,         \* number of close(ch) executed
    recvPc,           \* position of the receive routine
    srvNext,          \* number of the next snapshot the server pushes
    msg,              \* the snapshot of the last successful RecvMsg (0 = none)
    recvErr,          \* the error of the failed RecvMsg
    ctxAtFail,        \* ctx.Err() of the caller's context at the moment RecvMsg failed
    classification,   \* "none"|"cleanEOF"|"callerCancelled"|"transportFailure"
    received,         \* snapshots RecvMsg returned, in order
    delivered,        \* snapshots sent on ch, in order
    recvFails,        \* number of RecvMsg calls that returned an error
    sentAfterClose,   \* a send on ch happened after close(ch)
    consumed,         \* snapshots the caller has taken out of ch, in order
    \* ---- host command (cmd/avalanche-network-runner/server/server.go): serverFunc
    cmdPc,            \* position of serverFunc
    cmdPath,          \* exit path taken: "none"|"newErr"|"signal"|"served"
    cmdErr,           \* the named result err of serverFunc
    runPc,            \* goroutine of line 66: "unstarted"|"running"|"sending"|"done"
    runErr,           \* what s.Run returned
    rootCancels,      \* number of rootCancel() calls made
    sigSubscribed,    \* signal.Notify(sigc, ...) has been executed
    sigc,             \* buffered channel of signals, contents as a sequence
    sig,              \* the signal the select received
    sigsRaised,       \* number of termination signals sent to the process
    errcRecvs,        \* number of receives from serverFunc's errc
    \* ---- isClientCanceled applied to one input
    clsArgs,          \* [ctxErr, err] : the arguments
    clsRet            \* "none" before the call, then "true" | "false"

regVars == <<nodeNames, nodeInfos, apiClis, nodes>>
sigVars == <<readyc, readycCloseOnce, stopc, donec, errc, errcSends>>
startVars == <<startPc, startErr, selReady, rangeTodo, rangeName>>
collabVars == <<hc, timer, nwStopCalls, nwStopReturns>>
stopVars == <<stopOnce, stopPc, crashed>>

netVars == <<regVars, nw, sigVars, startVars, collabVars, stopVars>>

strVars == <<ctxErr, streamCtxErr, closed, closeCalls, ch, chCloses, recvPc, srvNext,
             msg, recvErr, ctxAtFail, classification, received, delivered,
             recvFails, sentAfterClose, consumed>>
clsVars == <<clsArgs, clsRet>>
cliVars == <<strVars, clsVars>>
cmdVars == <<cmdPc, cmdPath, cmdErr, runPc, runErr, rootCancels, sigSubscribed, sigc,
             sig, sigsRaised, errcRecvs>>

vars == <<netVars, cliVars, cmdVars>>

Stoppers == 1..NumStoppers

\* ------------------------------------------------------------ newNetwork
\* fmt.Sprintf("node%d", i+1) for the 0-based index i
NodeName(i) == "node" \o ToString(i + 1)

\* nodeNames[i] = nodeName for i in range cfg.NodeConfigs (TLA+ sequences are 1-based)
MakeNodeNames(n) == [k \in 1..n |-> NodeName(k - 1)]

\* nodeInfos[nodeName] = &rpcpb.NodeInfo{Name: nodeName, Uri: "", Id: "", ...}
MakeNodeInfos(n) ==
    [name \in {NodeName(k - 1) : k \in 1..n} |-> [Name |-> name, Uri |-> "", Id |-> ""]]

\* state right after newNetwork returned, for a default config of n nodes
newNetwork(n) ==
    /\ nodeNames = MakeNodeNames(n)
    /\ nodeInfos = MakeNodeInfos(n)
    /\ apiClis = {}
    /\ nodes = {}
    /\ nw = "nil"
    /\ readyc = 0
    /\ readycCloseOnce = "fresh"
    /\ stopc = 0
    /\ donec = 0
    /\ errc = <<>>
    /\ stopOnce = "fresh"

InitNet ==
    /\ \E n \in 1..MaxNodes : newNetwork(n)
    /\ errcSends = 0
    /\ startPc = "idle"
    /\ startErr = "none"
    /\ selReady = {}
    /\ rangeTodo = {}
    /\ rangeName = "none"
    /\ hc = "unset"
    /\ timer = "unset"
    /\ nwStopCalls = 0
    /\ nwStopReturns = 0
    /\ stopPc = [c \in Stoppers |-> "idle"]
    /\ crashed = FALSE

\* ------------------------------------------------------------------ start
\* go lc.start(): the goroutine begins and reaches local.NewNetwork
StartLaunch ==
    /\ ~crashed
    /\ startPc = "idle"
    /\ startPc' = "newNetwork"
    /\ UNCHANGED <<cmdVars, cliVars, regVars, nw, sigVars, startErr, selReady, rangeTodo, rangeName,
                   collabVars, stopVars>>

\* nw, err := local.NewNetwork(...); if err != nil { errc <- err }; lc.nw = nw
StartNewNetwork ==
    /\ ~crashed
    /\ startPc = "newNetwork"
    /\ \/ /\ startErr' = "launch"
          /\ startPc' = "sendErr"
          /\ nw' = nw
       \/ /\ nw' = "nw"
          /\ startPc' = "waitForHealthy"
          /\ startErr' = startErr
    /\ UNCHANGED <<cmdVars, cliVars, regVars, sigVars, selReady, rangeTodo, rangeName,
                   collabVars, stopVars>>

\* StartSendErr that returns without putting the error on errc
StartSendErrSkipped ==
    /\ ~crashed
    /\ startPc = "sendErr"
    /\ startPc' = "closeDonec"
    /\ UNCHANGED <<cmdVars, cliVars, regVars, nw, sigVars, startErr, selReady, rangeTodo,
                   rangeName, collabVars, stopVars>>

\* StartSendErr that reports the error a second time
StartSendErrTwice ==
    /\ ~crashed
    /\ startPc = "sendErr"
    /\ Len(errc) < ErrcCap
    /\ errc' = Append(errc, startErr)
    /\ errcSends' = errcSends + 1
    /\ startPc' = IF errcSends = 0 THEN "sendErr" ELSE "closeDonec"
    /\ UNCHANGED <<cmdVars, cliVars, regVars, nw, readyc, readycCloseOnce, stopc, donec, startErr,
                   selReady, rangeTodo, rangeName, collabVars, stopVars>>

\* lc.errc <- err : blocks while the buffer is full
StartSendErr ==
    /\ ~crashed
    /\ startPc = "sendErr"
    /\ Len(errc) < ErrcCap
    /\ errc' = Append(errc, startErr)
    /\ errcSends' = errcSends + 1
    /\ startPc' = "closeDonec"
    /\ UNCHANGED <<cmdVars, cliVars, regVars, nw, readyc, readycCloseOnce, stopc, donec, startErr,
                   selReady, rangeTodo, rangeName, collabVars, stopVars>>

\* defer func() { close(lc.donec) }()
StartCloseDonec ==
    /\ ~crashed
    /\ startPc = "closeDonec"
    /\ donec' = donec + 1
    /\ startPc' = "done"
    /\ UNCHANGED <<cmdVars, cliVars, regVars, nw, readyc, readycCloseOnce, stopc, errc, errcSends,
                   startErr, selReady, rangeTodo, rangeName, collabVars, stopVars>>

\* --------------------------------------------------------- waitForHealthy
\* ctx, cancel := context.WithTimeout(...); hc := lc.nw.Healthy(ctx)
\* The collaborator either reports on hc later ("pending") or never does.
WaitHealthyCall ==
    /\ ~crashed
    /\ startPc = "waitForHealthy"
    /\ timer' = "running"
    /\ hc' \in {"pending", "never"}
    /\ startPc' = "select"
    /\ UNCHANGED <<cmdVars, cliVars, regVars, nw, sigVars, startErr, selReady, rangeTodo, rangeName,
                   nwStopCalls, nwStopReturns, stopVars>>

\* the collaborator sends its result (nil = healthy, or an error) on hc
HealthReport ==
    /\ ~crashed
    /\ hc = "pending"
    /\ hc' \in {"nil", "err"}
    /\ UNCHANGED <<cmdVars, cliVars, regVars, nw, sigVars, startVars, timer, nwStopCalls,
                   nwStopReturns, stopVars>>

\* healthyWait elapses: ctx.Done() becomes ready
TimerFire ==
    /\ ~crashed
    /\ timer = "running"
    /\ timer' = "fired"
    /\ UNCHANGED <<cmdVars, cliVars, regVars, nw, sigVars, startVars, hc, nwStopCalls,
                   nwStopReturns, stopVars>>

\* ReadyCases as a select that lacks the case <-ctx.Done()
ReadyCasesNoDeadline ==
    (IF stopc > 0 THEN {"stopc"} ELSE {})
      \cup (IF hc \in {"nil", "err"} THEN {"hc"} ELSE {})

\* the cases of the select at lines 169-178 that can proceed in this state
ReadyCases ==
    (IF stopc > 0 THEN {"stopc"} ELSE {})
      \cup (IF timer = "fired" THEN {"ctx"} ELSE {})
      \cup (IF hc \in {"nil", "err"} THEN {"hc"} ELSE {})

\* SelectOutcome with the bodies of the first two cases exchanged
SelectOutcomeSwapped(c, h) ==
    CASE c = "stopc" -> "deadline"
      [] c = "ctx"   -> "aborted"
      [] c = "hc"    -> IF h = "err" THEN "health" ELSE "nil"

\* what waitForHealthy does with the case the select took:
\* the error it returns, or "nil" when it falls through to GetAllNodes
SelectOutcome(c, h) ==
    CASE c = "stopc" -> "aborted"
      [] c = "ctx"   -> "deadline"
      [] c = "hc"    -> IF h = "err" THEN "health" ELSE "nil"

\* defer cancel(): stops the timer of ctx when waitForHealthy returns
Cancel(t) == IF t = "running" THEN "cancelled" ELSE t

\* WaitSelect whose error returns close readyc as well (the close deferred)
WaitSelectDeferReady ==
    /\ ~crashed
    /\ startPc = "select"
    /\ ReadyCases # {}
    /\ \E c \in ReadyCases :
         LET out == SelectOutcome(c, hc) IN
         /\ selReady' = ReadyCases
         /\ hc' = IF c = "hc" THEN "received" ELSE hc
         /\ IF out = "nil"
               THEN /\ startPc' = "getAllNodes"
                    /\ UNCHANGED <<startErr, timer, readyc, readycCloseOnce>>
               ELSE /\ startPc' = "sendErr"
                    /\ startErr' = out
                    /\ timer' = Cancel(timer)
                    /\ readyc' = readyc + 1
                    /\ readycCloseOnce' = "done"
    /\ UNCHANGED <<cmdVars, cliVars, regVars, nw, stopc, donec, errc, errcSends, rangeTodo,
                   rangeName, nwStopCalls, nwStopReturns, stopVars>>

\* select { case <-lc.stopc: ... case <-ctx.Done(): ... case err := <-hc: ... }
\* Go takes any one of the ready cases.
WaitSelect ==
    /\ ~crashed
    /\ startPc = "select"
    /\ ReadyCases # {}
    /\ \E c \in ReadyCases :
         LET out == SelectOutcome(c, hc) IN
         /\ selReady' = ReadyCases
         /\ hc' = IF c = "hc" THEN "received" ELSE hc
         /\ IF out = "nil"
               THEN /\ startPc' = "getAllNodes"
                    /\ UNCHANGED <<startErr, timer>>
               ELSE /\ startPc' = "sendErr"
                    /\ startErr' = out
                    /\ timer' = Cancel(timer)
    /\ UNCHANGED <<cmdVars, cliVars, regVars, nw, sigVars, rangeTodo, rangeName, nwStopCalls,
                   nwStopReturns, stopVars>>

\* nodes, err := lc.nw.GetAllNodes(); lc.nodes = nodes
\* The network was built from lc.cfg, so its nodes carry the configured names.
WaitGetAllNodes ==
    /\ ~crashed
    /\ startPc = "getAllNodes"
    /\ \/ /\ startErr' = "nodes"
          /\ startPc' = "sendErr"
          /\ timer' = Cancel(timer)
          /\ UNCHANGED <<nodes, rangeTodo>>
       \/ /\ nodes' = {nodeNames[k] : k \in 1..Len(nodeNames)}
          /\ rangeTodo' = nodes'
          /\ startPc' = "range"
          /\ UNCHANGED <<startErr, timer>>
    /\ UNCHANGED <<cmdVars, cliVars, nodeNames, nodeInfos, apiClis, nw, sigVars, selReady, rangeName,
                   hc, nwStopCalls, nwStopReturns, stopVars>>

\* for name, node := range nodes : next iteration (Go's map order is arbitrary)
WaitRangeNext ==
    /\ ~crashed
    /\ startPc = "range"
    /\ \E name \in rangeTodo :
         /\ rangeName' = name
         /\ rangeTodo' = rangeTodo \ {name}
    /\ startPc' = "setUri"
    /\ UNCHANGED <<cmdVars, cliVars, regVars, nw, sigVars, startErr, selReady, collabVars, stopVars>>

\* values a node handle can return
Urls == {"", "127.0.0.1"}
Ports == {9650}
ShortIDs == {"", "7Xhw"}

\* fmt.Sprintf("http://%s:%d", node.GetURL(), node.GetAPIPort())
FormatUri(url, port) == "http://" \o url \o ":" \o ToString(port)

\* node.GetNodeID().PrefixedString(constants.NodeIDPrefix)
PrefixedString(id) == "NodeID-" \o id

\* WaitSetUri that also appends the name to lc.nodeNames
WaitSetUriAppending ==
    /\ ~crashed
    /\ startPc = "setUri"
    /\ \E url \in Urls, port \in Ports :
         nodeInfos' = [nodeInfos EXCEPT ![rangeName].Uri = FormatUri(url, port)]
    /\ nodeNames' = Append(nodeNames, rangeName)
    /\ startPc' = "setId"
    /\ UNCHANGED <<cmdVars, cliVars, apiClis, nodes, nw, sigVars, startErr, selReady,
                   rangeTodo, rangeName, collabVars, stopVars>>

\* lc.nodeInfos[name].Uri = uri
WaitSetUri ==
    /\ ~crashed
    /\ startPc = "setUri"
    /\ \E url \in Urls, port \in Ports :
         nodeInfos' = [nodeInfos EXCEPT ![rangeName].Uri = FormatUri(url, port)]
    /\ startPc' = "setId"
    /\ UNCHANGED <<cmdVars, cliVars, nodeNames, apiClis, nodes, nw, sigVars, startErr, selReady,
                   rangeTodo, rangeName, collabVars, stopVars>>

\* WaitSetId with the assignment to Id left out
WaitSetIdSkipped ==
    /\ ~crashed
    /\ startPc = "setId"
    /\ startPc' = "setApiCli"
    /\ UNCHANGED <<cmdVars, cliVars, regVars, nw, sigVars, startErr, selReady,
                   rangeTodo, rangeName, collabVars, stopVars>>

\* lc.nodeInfos[name].Id = nodeID
WaitSetId ==
    /\ ~crashed
    /\ startPc = "setId"
    /\ \E id \in ShortIDs :
         nodeInfos' = [nodeInfos EXCEPT ![rangeName].Id = PrefixedString(id)]
    /\ startPc' = "setApiCli"
    /\ UNCHANGED <<cmdVars, cliVars, nodeNames, apiClis, nodes, nw, sigVars, startErr, selReady,
                   rangeTodo, rangeName, collabVars, stopVars>>

\* lc.apiClis[name] = node.GetAPIClient()
WaitSetApiCli ==
    /\ ~crashed
    /\ startPc = "setApiCli"
    /\ apiClis' = apiClis \cup {rangeName}
    /\ startPc' = "range"
    /\ UNCHANGED <<cmdVars, cliVars, nodeNames, nodeInfos, nodes, nw, sigVars, startErr, selReady,
                   rangeTodo, rangeName, collabVars, stopVars>>

\* the range loop is over: lc.readycCloseOnce.Do(close(lc.readyc)); return nil
WaitCloseReadyc ==
    /\ ~crashed
    /\ startPc = "range"
    /\ rangeTodo = {}
    /\ IF readycCloseOnce = "fresh"
          THEN /\ readyc' = readyc + 1
               /\ readycCloseOnce' = "done"
          ELSE UNCHANGED <<readyc, readycCloseOnce>>
    /\ startErr' = "nil"
    /\ timer' = Cancel(timer)
    /\ startPc' = "closeDonec"
    /\ UNCHANGED <<cmdVars, cliVars, regVars, nw, stopc, donec, errc, errcSends, selReady, rangeTodo,
                   rangeName, hc, nwStopCalls, nwStopReturns, stopVars>>

\* ------------------------------------------------------------------- stop
\* a goroutine calls lc.stop() and reaches lc.stopOnce.Do
StopCall(c) ==
    /\ ~crashed
    /\ stopPc[c] = "idle"
    /\ stopPc' = [stopPc EXCEPT ![c] = "do"]
    /\ UNCHANGED <<cmdVars, cliVars, regVars, nw, sigVars, startVars, collabVars, stopOnce, crashed>>

\* sync.Once.Do: the first caller runs the function, a caller that finds the
\* Once done returns, any other caller waits on the Once's mutex
StopOnceDo(c) ==
    /\ ~crashed
    /\ stopPc[c] = "do"
    /\ stopOnce # "running"
    /\ IF stopOnce = "fresh"
          THEN /\ stopOnce' = "running"
               /\ stopPc' = [stopPc EXCEPT ![c] = "closeStopc"]
          ELSE /\ stopOnce' = stopOnce
               /\ stopPc' = [stopPc EXCEPT ![c] = "returned"]
    /\ UNCHANGED <<cmdVars, cliVars, regVars, nw, sigVars, startVars, collabVars, crashed>>

\* close(lc.stopc)
StopCloseStopc(c) ==
    /\ ~crashed
    /\ stopPc[c] = "closeStopc"
    /\ stopc' = stopc + 1
    /\ stopPc' = [stopPc EXCEPT ![c] = "nwStop"]
    /\ UNCHANGED <<cmdVars, cliVars, regVars, nw, readyc, readycCloseOnce, donec, errc, errcSends,
                   startVars, collabVars, stopOnce, crashed>>

\* serr := lc.nw.Stop(context.Background()) : the call.
\* lc.nw is read without synchronisation; while it is nil the method call on the
\* nil interface panics, and the deferred part of Once.Do marks the Once done.
StopNwStop(c) ==
    /\ ~crashed
    /\ stopPc[c] = "nwStop"
    /\ IF nw = "nil"
          THEN /\ stopPc' = [stopPc EXCEPT ![c] = "panicked"]
               /\ stopOnce' = "done"
               /\ UNCHANGED nwStopCalls
          ELSE /\ nwStopCalls' = nwStopCalls + 1
               /\ stopPc' = [stopPc EXCEPT ![c] = "inNwStop"]
               /\ UNCHANGED stopOnce
    /\ UNCHANGED <<cmdVars, cliVars, regVars, nw, sigVars, startVars, hc, timer, nwStopReturns, crashed>>

\* nw.Stop returns (its error is only printed)
StopNwStopReturn(c) ==
    /\ ~crashed
    /\ stopPc[c] = "inNwStop"
    /\ nwStopReturns' = nwStopReturns + 1
    /\ stopPc' = [stopPc EXCEPT ![c] = "waitDone"]
    /\ UNCHANGED <<cmdVars, cliVars, regVars, nw, sigVars, startVars, hc, timer, nwStopCalls,
                   stopOnce, crashed>>

\* <-lc.donec; color.Outf(...); the function ends, the Once is done, stop() returns
StopWaitDone(c) ==
    /\ ~crashed
    /\ stopPc[c] = "waitDone"
    /\ donec > 0
    /\ stopOnce' = "done"
    /\ stopPc' = [stopPc EXCEPT ![c] = "returned"]
    /\ UNCHANGED <<cmdVars, cliVars, regVars, nw, sigVars, startVars, collabVars, crashed>>

\* a panic nobody recovers ends the process: every goroutine stops
Crash ==
    /\ ~crashed
    /\ \E c \in Stoppers : stopPc[c] = "panicked"
    /\ crashed' = TRUE
    /\ UNCHANGED <<cmdVars, cliVars, regVars, nw, sigVars, startVars, collabVars, stopOnce, stopPc>>


\* ====================================================== client/client.go
\* ------------------------------------------------------------- errors
\* an error value: the end-of-stream marker io.EOF, an error that carries no
\* gRPC status, or a gRPC status error with its code and message
NoErr == [kind |-> "none", code |-> "OK", msg |-> ""]
EOF == [kind |-> "eof", code |-> "Unknown", msg |-> "EOF"]
PlainErr == [kind |-> "plain", code |-> "Unknown", msg |-> "connection reset by peer"]

\* google.golang.org/grpc/codes, without OK (a status with code OK is no error)
Codes == {"Canceled", "Unknown", "InvalidArgument", "DeadlineExceeded", "NotFound",
          "AlreadyExists", "PermissionDenied", "ResourceExhausted",
          "FailedPrecondition", "Aborted", "OutOfRange", "Unimplemented",
          "Internal", "Unavailable", "DataLoss", "Unauthenticated"}

\* status messages tried
Msgs == {"", "client disconnected", "client disconnected ", "Client disconnected",
         "stream error: stream ID 21; CANCEL", "stream error: ; CANCEL",
         "stream error: stream ID 21; CANCEL ", " stream error: stream ID 7; CANCEL",
         "stream error: stream ID 7; cancel", "stream error:stream ID 7; CANCEL",
         "stream error: ", "; CANCEL", "context canceled", "transport is closing"}

StatusErr(code, m) == [kind |-> "status", code |-> code, msg |-> m]
StatusErrs == {StatusErr(code, m) : code \in Codes, m \in Msgs}

CtxErrs == {"nil", "Canceled", "DeadlineExceeded"}

\* strings.HasPrefix(s, prefix)
HasPrefix(s, prefix) ==
    Len(s) >= Len(prefix) /\ SubSeq(s, 1, Len(prefix)) = prefix

\* strings.HasSuffix(s, suffix)
HasSuffix(s, suffix) ==
    Len(s) >= Len(suffix) /\ SubSeq(s, Len(s) - Len(suffix) + 1, Len(s)) = suffix

\* errors.Is(err, io.EOF)
IsEOF(err) == err.kind = "eof"

\* ev, ok := status.FromError(err): ok
FromErrorOk(err) == err.kind \in {"status", "none"}

\* ev.Code()
StatusCode(err) ==
    IF err.kind = "status" THEN err.code
    ELSE IF err.kind = "none" THEN "OK" ELSE "Unknown"

\* isClientCanceled with Unavailable matched on the code alone
isClientCanceledAnyUnavailable(cErr, err) ==
    IF cErr # "nil" THEN TRUE
    ELSE IF ~FromErrorOk(err) THEN FALSE
    ELSE CASE StatusCode(err) \in {"Canceled", "DeadlineExceeded"} -> TRUE
           [] StatusCode(err) = "Unavailable" -> TRUE
           [] OTHER -> FALSE

\* func isClientCanceled(ctxErr error, err error) bool
isClientCanceled(cErr, err) ==
    IF cErr # "nil" THEN TRUE
    ELSE IF ~FromErrorOk(err) THEN FALSE
    ELSE CASE StatusCode(err) \in {"Canceled", "DeadlineExceeded"} -> TRUE
           [] StatusCode(err) = "Unavailable" ->
                \/ err.msg = "client disconnected"
                \/ HasPrefix(err.msg, "stream error: ") /\ HasSuffix(err.msg, "; CANCEL")
           [] OTHER -> FALSE

\* ------------------------------------------------ isClientCanceled alone
ClsInputs == [ctxErr : CtxErrs, err : StatusErrs \cup {PlainErr, EOF}]

InitCls ==
    /\ clsArgs = [ctxErr |-> "nil", err |-> NoErr]
    /\ clsRet = "none"

\* the call isClientCanceled(clsArgs.ctxErr, clsArgs.err)
Classify ==
    /\ clsRet = "none"
    /\ clsRet' = IF isClientCanceled(clsArgs.ctxErr, clsArgs.err) THEN "true" ELSE "false"
    /\ UNCHANGED <<cmdVars, netVars, strVars, clsArgs>>

\* ----------------------------------------------------------- StreamStatus
\* state when StreamStatus is called
InitStream ==
    /\ ctxErr = "nil"
    /\ streamCtxErr = "nil"
    /\ closed = 0
    /\ closeCalls = 0
    /\ ch = <<>>
    /\ chCloses = 0
    /\ recvPc = "open"
    /\ srvNext = 1
    /\ msg = 0
    /\ recvErr = NoErr
    /\ ctxAtFail = "nil"
    /\ classification = "none"
    /\ received = <<>>
    /\ delivered = <<>>
    /\ recvFails = 0
    /\ sentAfterClose = FALSE
    /\ consumed = <<>>

\* errors a failing RecvMsg returns on the stream
StreamErrs == {EOF, PlainErr,
               StatusErr("Canceled", "context canceled"),
               StatusErr("DeadlineExceeded", "context canceled"),
               StatusErr("Unavailable", "client disconnected"),
               StatusErr("Unavailable", "stream error: stream ID 21; CANCEL"),
               StatusErr("Unavailable", "transport is closing"),
               StatusErr("Internal", "stream error: stream ID 21; CANCEL")}

\* stream, err := c.controlc.StreamStatus(ctx, ...): on an error StreamStatus
\* returns (nil, err) and starts no routine; else ch is made and the routine starts
StreamOpen ==
    /\ recvPc = "open"
    /\ recvPc' \in {"failed", "check"}
    /\ UNCHANGED <<cmdVars, netVars, clsVars, consumed, ctxErr, streamCtxErr, closed, closeCalls, ch,
                   chCloses, srvNext, msg, recvErr, ctxAtFail, classification,
                   received, delivered, recvFails, sentAfterClose>>

\* the caller cancels ctx or its deadline passes; the stream's context derives from it
CtxCancel ==
    /\ ctxErr = "nil"
    /\ ctxErr' \in {"Canceled", "DeadlineExceeded"}
    /\ streamCtxErr' = IF streamCtxErr = "nil" THEN ctxErr' ELSE streamCtxErr
    /\ UNCHANGED <<cmdVars, netVars, clsVars, consumed, closed, closeCalls, ch, chCloses, recvPc, srvNext,
                   msg, recvErr, ctxAtFail, classification, received, delivered,
                   recvFails, sentAfterClose>>

\* func (c *client) Close(): c.closeOnce.Do(func() { close(c.closed) })
Close ==
    /\ closeCalls < MaxCloses
    /\ closeCalls' = closeCalls + 1
    /\ closed' = IF closeCalls = 0 THEN closed + 1 ELSE closed
    /\ UNCHANGED <<cmdVars, netVars, clsVars, consumed, ctxErr, streamCtxErr, ch, chCloses, recvPc,
                   srvNext, msg, recvErr, ctxAtFail, classification, received,
                   delivered, recvFails, sentAfterClose>>

\* select { case <-ctx.Done(): return; case <-c.closed: return; default: }
RecvCheck ==
    /\ recvPc = "check"
    /\ recvPc' = IF ctxErr # "nil" \/ closed > 0 THEN "defer" ELSE "recv"
    /\ UNCHANGED <<cmdVars, netVars, clsVars, consumed, ctxErr, streamCtxErr, closed, closeCalls, ch,
                   chCloses, srvNext, msg, recvErr, ctxAtFail, classification,
                   received, delivered, recvFails, sentAfterClose>>

\* err := stream.RecvMsg(msg) returns nil: the next snapshot has arrived
RecvMsgOk ==
    /\ recvPc = "recv"
    /\ srvNext <= MaxMsgs
    /\ msg' = srvNext
    /\ srvNext' = srvNext + 1
    /\ received' = Append(received, srvNext)
    /\ recvPc' = "send"
    /\ UNCHANGED <<cmdVars, netVars, clsVars, consumed, ctxErr, streamCtxErr, closed, closeCalls, ch,
                   chCloses, recvErr, ctxAtFail, classification, delivered,
                   recvFails, sentAfterClose>>

\* err := stream.RecvMsg(msg) returns an error. The stream's context has the
\* caller's error if the caller's context is done; the transport may also
\* have cancelled it when it ended the stream.
RecvMsgFail ==
    /\ recvPc = "recv"
    /\ \E e \in StreamErrs : recvErr' = e
    /\ streamCtxErr' \in (IF streamCtxErr # "nil" THEN {streamCtxErr}
                                                  ELSE {"nil", "Canceled"})
    /\ ctxAtFail' = ctxErr
    /\ recvFails' = recvFails + 1
    /\ recvPc' = "handleErr"
    /\ UNCHANGED <<cmdVars, netVars, clsVars, consumed, ctxErr, closed, closeCalls, ch, chCloses, srvNext,
                   msg, classification, received, delivered, sentAfterClose>>

\* RecvSend that does not wait for a free slot: a full buffer has its pending
\* value replaced by the new one
RecvSendCoalescing ==
    /\ recvPc = "send"
    /\ ch' = IF Len(ch) < ChCap THEN Append(ch, msg) ELSE <<msg>>
    /\ delivered' = Append(delivered, msg)
    /\ sentAfterClose' = (sentAfterClose \/ chCloses > 0)
    /\ recvPc' = "check"
    /\ UNCHANGED <<cmdVars, netVars, clsVars, consumed, ctxErr, streamCtxErr, closed,
                   closeCalls, chCloses, srvNext, msg, recvErr, ctxAtFail,
                   classification, received, recvFails>>

\* ch <- msg.GetClusterInfo(); continue : blocks while the buffer is full
RecvSend ==
    /\ recvPc = "send"
    /\ Len(ch) < ChCap
    /\ ch' = Append(ch, msg)
    /\ delivered' = Append(delivered, msg)
    /\ sentAfterClose' = (sentAfterClose \/ chCloses > 0)
    /\ recvPc' = "check"
    /\ UNCHANGED <<cmdVars, netVars, clsVars, consumed, ctxErr, streamCtxErr, closed, closeCalls,
                   chCloses, srvNext, msg, recvErr, ctxAtFail, classification,
                   received, recvFails>>

\* ClassifyRecvErr with the context looked at before the end-of-stream marker
ClassifyRecvErrCtxFirst(sErr, err) ==
    IF sErr # "nil" THEN "callerCancelled"
    ELSE IF IsEOF(err) THEN "cleanEOF"
    ELSE IF isClientCanceled(sErr, err) THEN "callerCancelled"
    ELSE "transportFailure"

\* lines 157-165: which of the three log messages the failed receive gets
ClassifyRecvErr(sErr, err) ==
    IF IsEOF(err) THEN "cleanEOF"
    ELSE IF isClientCanceled(sErr, err) THEN "callerCancelled"
    ELSE "transportFailure"

\* RecvHandleErr that goes on with the loop instead of returning
RecvHandleErrContinue ==
    /\ recvPc = "handleErr"
    /\ classification' = ClassifyRecvErr(streamCtxErr, recvErr)
    /\ recvPc' = "check"
    /\ UNCHANGED <<cmdVars, netVars, clsVars, consumed, ctxErr, streamCtxErr, closed, closeCalls, ch,
                   chCloses, srvNext, msg, recvErr, ctxAtFail, received, delivered,
                   recvFails, sentAfterClose>>

\* if errors.Is(err, io.EOF) {...; return}
\* if isClientCanceled(stream.Context().Err(), err) {...} else {...}; return
RecvHandleErr ==
    /\ recvPc = "handleErr"
    /\ classification' = ClassifyRecvErr(streamCtxErr, recvErr)
    /\ recvPc' = "defer"
    /\ UNCHANGED <<cmdVars, netVars, clsVars, consumed, ctxErr, streamCtxErr, closed, closeCalls, ch,
                   chCloses, srvNext, msg, recvErr, ctxAtFail, received, delivered,
                   recvFails, sentAfterClose>>

\* defer func() { stream.CloseSend(); close(ch) }()
RecvDefer ==
    /\ recvPc = "defer"
    /\ chCloses' = chCloses + 1
    /\ recvPc' = "exited"
    /\ UNCHANGED <<cmdVars, netVars, clsVars, consumed, ctxErr, streamCtxErr, closed, closeCalls, ch,
                   srvNext, msg, recvErr, ctxAtFail, classification, received,
                   delivered, recvFails, sentAfterClose>>

\* the caller of StreamStatus receives one value from ch
Consume ==
    /\ ch # <<>>
    /\ ch' = Tail(ch)
    /\ consumed' = Append(consumed, Head(ch))
    /\ UNCHANGED <<cmdVars, netVars, clsVars, ctxErr, streamCtxErr, closed, closeCalls,
                   chCloses, recvPc, srvNext, msg, recvErr, ctxAtFail,
                   classification, received, delivered, recvFails, sentAfterClose>>

\* ------------------------------------------------ host command: serverFunc
Signals == {"SIGINT", "SIGTERM"}

\* state when serverFunc has built its logger and calls server.New
InitCmd ==
    /\ cmdPc = "new"
    /\ cmdPath = "none"
    /\ cmdErr = "nil"
    /\ runPc = "unstarted"
    /\ runErr = "none"
    /\ rootCancels = 0
    /\ sigSubscribed = FALSE
    /\ sigc = <<>>
    /\ sig = "none"
    /\ sigsRaised = 0
    /\ errcRecvs = 0

\* s, err := server.New(...); if err != nil { return err }
\* rootCtx, rootCancel := context.WithCancel(...); errc := make(chan error)
CmdNew ==
    /\ cmdPc = "new"
    /\ \/ /\ cmdErr' = "err"
          /\ cmdPath' = "newErr"
          /\ cmdPc' = "returned"
       \/ /\ cmdPc' = "go"
          /\ UNCHANGED <<cmdErr, cmdPath>>
    /\ UNCHANGED <<netVars, cliVars, runPc, runErr, rootCancels, sigSubscribed, sigc,
                   sig, sigsRaised, errcRecvs>>

\* go func() { errc <- s.Run(rootCtx) }()
CmdGo ==
    /\ cmdPc = "go"
    /\ runPc' = "running"
    /\ cmdPc' = "notify"
    /\ UNCHANGED <<netVars, cliVars, cmdPath, cmdErr, runErr, rootCancels,
                   sigSubscribed, sigc, sig, sigsRaised, errcRecvs>>

\* sigc := make(chan os.Signal, 1); signal.Notify(sigc, SIGINT, SIGTERM)
CmdNotify ==
    /\ cmdPc = "notify"
    /\ sigSubscribed' = TRUE
    /\ cmdPc' = "select"
    /\ UNCHANGED <<netVars, cliVars, cmdPath, cmdErr, runPc, runErr, rootCancels,
                   sigc, sig, sigsRaised, errcRecvs>>

\* the operating system sends the process a termination signal; the signal
\* package does not block on a full channel, it drops the signal
SignalArrive ==
    /\ sigSubscribed
    /\ sigsRaised < MaxSignals
    /\ sigsRaised' = sigsRaised + 1
    /\ \E g \in Signals :
          sigc' = IF Len(sigc) < SigcCap THEN Append(sigc, g) ELSE sigc
    /\ UNCHANGED <<netVars, cliVars, cmdPc, cmdPath, cmdErr, runPc, runErr,
                   rootCancels, sigSubscribed, sig, errcRecvs>>

\* s.Run(rootCtx) returns, of itself or because rootCtx was cancelled; the
\* goroutine then offers the result on the unbuffered errc
RunReturn ==
    /\ runPc = "running"
    /\ runErr' \in {"nil", "err"}
    /\ runPc' = "sending"
    /\ UNCHANGED <<netVars, cliVars, cmdPc, cmdPath, cmdErr, rootCancels,
                   sigSubscribed, sigc, sig, sigsRaised, errcRecvs>>

\* select: case sig := <-sigc
CmdSelectSig ==
    /\ cmdPc = "select"
    /\ sigc # <<>>
    /\ sig' = Head(sigc)
    /\ sigc' = Tail(sigc)
    /\ cmdPath' = "signal"
    /\ cmdPc' = "sigCancel"
    /\ UNCHANGED <<netVars, cliVars, cmdErr, runPc, runErr, rootCancels,
                   sigSubscribed, sigsRaised, errcRecvs>>

\* rootCancel() of the signal case
CmdSigCancel ==
    /\ cmdPc = "sigCancel"
    /\ rootCancels' = rootCancels + 1
    /\ cmdPc' = "sigRecv"
    /\ UNCHANGED <<netVars, cliVars, cmdPath, cmdErr, runPc, runErr, sigSubscribed,
                   sigc, sig, sigsRaised, errcRecvs>>

\* CmdSigRecv that does not wait for the result of the serving routine
CmdSigRecvNoWait ==
    /\ cmdPc = "sigRecv"
    /\ cmdPc' = "returned"
    /\ UNCHANGED <<netVars, cliVars, cmdPath, cmdErr, runPc, runErr, rootCancels,
                   sigSubscribed, sigc, sig, sigsRaised, errcRecvs>>

\* zap.L().Warn("closed server", zap.Error(<-errc)); return err :
\* the receive meets the goroutine's send; err keeps the nil of server.New
CmdSigRecv ==
    /\ cmdPc = "sigRecv"
    /\ runPc = "sending"
    /\ runPc' = "done"
    /\ errcRecvs' = errcRecvs + 1
    /\ cmdPc' = "returned"
    /\ UNCHANGED <<netVars, cliVars, cmdPath, cmdErr, runErr, rootCancels,
                   sigSubscribed, sigc, sig, sigsRaised>>

\* select: case err = <-errc : the receive meets the goroutine's send
CmdSelectErrc ==
    /\ cmdPc = "select"
    /\ runPc = "sending"
    /\ runPc' = "done"
    /\ errcRecvs' = errcRecvs + 1
    /\ cmdErr' = runErr
    /\ cmdPath' = "served"
    /\ cmdPc' = "errCancel"
    /\ UNCHANGED <<netVars, cliVars, runErr, rootCancels, sigSubscribed, sigc, sig,
                   sigsRaised>>

\* rootCancel() of the errc case; return err
CmdErrCancel ==
    /\ cmdPc = "errCancel"
    /\ rootCancels' = rootCancels + 1
    /\ cmdPc' = "returned"
    /\ UNCHANGED <<netVars, cliVars, cmdPath, cmdErr, runPc, runErr, sigSubscribed,
                   sigc, sig, sigsRaised, errcRecvs>>

\* ============================================================ specifications
Init == InitNet /\ InitStream /\ InitCls /\ InitCmd

InitClassify ==
    /\ InitNet
    /\ InitStream
    /\ clsArgs \in ClsInputs
    /\ clsRet = "none"
    /\ InitCmd

Next ==
    \/ StartLaunch
    \/ StartNewNetwork
    \/ StartSendErr
    \/ StartCloseDonec
    \/ WaitHealthyCall
    \/ HealthReport
    \/ TimerFire
    \/ WaitSelect
    \/ WaitGetAllNodes
    \/ WaitRangeNext
    \/ WaitSetUri
    \/ WaitSetId
    \/ WaitSetApiCli
    \/ WaitCloseReadyc
    \/ \E c \in Stoppers : StopCall(c)
    \/ \E c \in Stoppers : StopOnceDo(c)
    \/ \E c \in Stoppers : StopCloseStopc(c)
    \/ \E c \in Stoppers : StopNwStop(c)
    \/ \E c \in Stoppers : StopNwStopReturn(c)
    \/ \E c \in Stoppers : StopWaitDone(c)
    \/ Crash

Spec == Init /\ [][Next]_vars

StreamNext ==
    \/ StreamOpen
    \/ CtxCancel
    \/ Close
    \/ RecvCheck
    \/ RecvMsgOk
    \/ RecvMsgFail
    \/ RecvSend
    \/ RecvHandleErr
    \/ RecvDefer
    \/ Consume

SpecStream == Init /\ [][StreamNext]_vars

ClassifyNext == Classify

SpecClassify == InitClassify /\ [][ClassifyNext]_vars

CmdNext ==
    \/ CmdNew
    \/ CmdGo
    \/ CmdNotify
    \/ SignalArrive
    \/ RunReturn
    \/ CmdSelectSig
    \/ CmdSigCancel
    \/ CmdSigRecv
    \/ CmdSelectErrc
    \/ CmdErrCancel

SpecCmd == Init /\ [][CmdNext]_vars

\* the goroutines are scheduled and time passes: a timer that runs fires, and a
\* select with a ready case proceeds
FairSpec == Spec /\ WF_vars(TimerFire) /\ WF_vars(WaitSelect)

\* every goroutine that has started is scheduled, the timer fires and nw.Stop
\* returns; nothing makes anybody call start() or stop()
FairSpecStop ==
    /\ Spec
    /\ WF_vars(StartNewNetwork)
    /\ WF_vars(StartSendErr)
    /\ WF_vars(StartCloseDonec)
    /\ WF_vars(WaitHealthyCall)
    /\ WF_vars(TimerFire)
    /\ WF_vars(WaitSelect)
    /\ WF_vars(WaitGetAllNodes)
    /\ WF_vars(WaitRangeNext)
    /\ WF_vars(WaitSetUri)
    /\ WF_vars(WaitSetId)
    /\ WF_vars(WaitSetApiCli)
    /\ WF_vars(WaitCloseReadyc)
    /\ \A c \in Stoppers : WF_vars(StopOnceDo(c))
    /\ \A c \in Stoppers : WF_vars(StopCloseStopc(c))
    /\ \A c \in Stoppers : WF_vars(StopNwStop(c))
    /\ \A c \in Stoppers : WF_vars(StopNwStopReturn(c))
    /\ \A c \in Stoppers : WF_vars(StopWaitDone(c))

\* a RecvMsg that is pending when the caller's context is done or the connection
\* has been closed returns an error
RecvMsgCancelled ==
    /\ ctxErr # "nil" \/ closed > 0
    /\ RecvMsgFail

\* the receive routine is scheduled, and a cancelled receive returns; nothing
\* makes the caller of StreamStatus go on reading ch
FairSpecStream ==
    /\ SpecStream
    /\ WF_vars(RecvCheck)
    /\ WF_vars(RecvMsgCancelled)
    /\ WF_vars(RecvSend)
    /\ WF_vars(RecvHandleErr)
    /\ WF_vars(RecvDefer)

\* ================================================================ claims
StopRequested == \E c \in Stoppers : stopPc[c] # "idle"
Names == {nodeNames[k] : k \in 1..Len(nodeNames)}

\* C1: for one or more stop() calls, nw.Stop is invoked exactly once and stopc
\* is closed exactly once: never more than once, and exactly once as soon as
\* the Once of stop() has run its function.
C1_StopExactlyOnce ==
    /\ nwStopCalls <= 1
    /\ stopc <= 1
    /\ (stopOnce = "done" => (nwStopCalls = 1 /\ stopc = 1))

\* C2: when any stop() call has returned, stopc is closed, nw.Stop has
\* returned and start() has finished (donec is closed).
C2_ReturnAfterShutdown ==
    \A c \in Stoppers :
        stopPc[c] = "returned" => (stopc > 0 /\ nwStopReturns > 0 /\ donec > 0)

\* C3 (as claimed): if stopc was closed when the select resolved, waitForHealthy
\* returned Aborted, whatever else was ready.
C3_StopAlwaysAborts ==
    "stopc" \in selReady => startErr = "aborted"

\* C3 (amended): if stopc was the only ready case when the select resolved,
\* waitForHealthy returned Aborted (also when the collaborator reports
\* later); and Aborted is returned only if stopc was closed at that moment.
C3_OnlyStopReadyAborts ==
    /\ selReady = {"stopc"} => startErr = "aborted"
    /\ startErr = "aborted" => "stopc" \in selReady

\* C3 witness: stop won the select alone and the collaborator reported healthy later
C3_Witness ==
    /\ selReady = {"stopc"}
    /\ startErr = "aborted"
    /\ hc = "nil"

\* C4: when the collaborator never reports and nobody requests a stop, a
\* waitForHealthy blocked in its select eventually returns, with the deadline error.
C4_DeadlineReturns ==
    (startPc = "select" /\ hc = "never") ~> (startErr = "deadline" \/ StopRequested)

\* C4 witness: the deadline error was returned with a silent collaborator and no stop
C4_Witness ==
    /\ hc = "never"
    /\ startErr = "deadline"
    /\ ~StopRequested
    /\ startPc = "done"

\* C5: once readyc is closed, the registry has one entry per configured node
\* name, N in all, each with a non-empty Uri and a non-empty Id.
C5_ReadyRegistryComplete ==
    readyc > 0 =>
        /\ DOMAIN nodeInfos = Names
        /\ Cardinality(DOMAIN nodeInfos) = Len(nodeNames)
        /\ \A name \in DOMAIN nodeInfos :
              /\ nodeInfos[name].Name = name
              /\ nodeInfos[name].Uri # ""
              /\ nodeInfos[name].Id # ""

\* C5 witness: start() succeeded for the largest cluster, one node having an
\* empty URL and an empty short identifier
C5_Witness ==
    /\ readyc > 0
    /\ startErr = "nil"
    /\ startPc = "done"
    /\ Len(nodeNames) = MaxNodes
    /\ \E name \in DOMAIN nodeInfos :
          nodeInfos[name].Uri = "http://:9650" /\ nodeInfos[name].Id = "NodeID-"

\* C6: no state shows one node with Uri and Id filled in while another node
\* of the cluster still has both empty.
C6_PublishAllOrNothing ==
    ~ \E a, b \in DOMAIN nodeInfos :
        /\ nodeInfos[a].Uri # "" /\ nodeInfos[a].Id # ""
        /\ nodeInfos[b].Uri = "" /\ nodeInfos[b].Id = ""

\* C7: in every state every node record has Uri and Id both empty or both
\* non-empty.
C7_UriIdTogether ==
    \A name \in DOMAIN nodeInfos :
        (nodeInfos[name].Uri = "") <=> (nodeInfos[name].Id = "")

\* the messages of Msgs that are exactly "client disconnected" or start
\* with "stream error: " and end with "; CANCEL", picked by hand
ClaimCancelMsgs == {"client disconnected", "stream error: stream ID 21; CANCEL",
                    "stream error: ; CANCEL"}

\* C8: for a receive error other than end-of-stream, isClientCanceled answers
\* true exactly when the context has an error, or the status code is Canceled
\* or DeadlineExceeded, or the code is Unavailable with one of the two
\* cancellation messages; an error without a status, any other code and any
\* other Unavailable message give false.
C8_ClassificationExact ==
    (clsRet # "none" /\ clsArgs.err.kind # "eof") =>
        ((clsRet = "true") <=>
            \/ clsArgs.ctxErr # "nil"
            \/ /\ clsArgs.err.kind = "status"
               /\ \/ clsArgs.err.code \in {"Canceled", "DeadlineExceeded"}
                  \/ /\ clsArgs.err.code = "Unavailable"
                     /\ clsArgs.err.msg \in ClaimCancelMsgs)

\* C8 witness: Unavailable with a near-miss message, clear context: transport failure
C8_Witness ==
    /\ clsRet = "false"
    /\ clsArgs.ctxErr = "nil"
    /\ clsArgs.err = StatusErr("Unavailable", "stream error: stream ID 7; cancel")

\* C9 (as claimed): a receive that failed while the reading context was
\* already cancelled is classified caller-cancelled whatever the error,
\* end-of-stream included; clean-EOF is chosen only with a clear context.
C9_CancelledContextWins ==
    classification # "none" =>
        /\ ctxAtFail # "nil" => classification = "callerCancelled"
        /\ classification = "cleanEOF" => ctxAtFail = "nil"

\* C9 (amended): a failed receive is classified clean-EOF exactly when its
\* error is the end-of-stream marker, whatever the context; any other error
\* of a receive that failed with the context cancelled is caller-cancelled.
C9_EofBeforeContext ==
    classification # "none" =>
        /\ (classification = "cleanEOF") <=> IsEOF(recvErr)
        /\ (~IsEOF(recvErr) /\ ctxAtFail # "nil") => classification = "callerCancelled"

\* C9 witness: an error without status, received after the deadline of the context
C9_Witness ==
    /\ classification = "callerCancelled"
    /\ ctxAtFail = "DeadlineExceeded"
    /\ recvErr = PlainErr

\* C10: the routine closes ch once, and only when it ends; it never sends
\* after the close; it makes no receive after a failed one; and what it has
\* sent is a prefix of what it received, everything received once a receive
\* has failed (no value stands for the failed receive).
C10_CloseOnceNoSendAfter ==
    /\ chCloses <= 1
    /\ (chCloses = 1) <=> (recvPc = "exited")
    /\ ~sentAfterClose
    /\ recvFails <= 1
    /\ recvFails = 1 => recvPc \in {"handleErr", "defer", "exited"}
    /\ Len(delivered) <= Len(received)
    /\ delivered = SubSeq(received, 1, Len(delivered))
    /\ recvFails = 1 => delivered = received

\* C10 witness: the routine ended on a transport failure after delivering a snapshot
C10_Witness ==
    /\ recvPc = "exited"
    /\ chCloses = 1
    /\ classification = "transportFailure"
    /\ recvFails = 1
    /\ Len(delivered) >= 1

\* C11: once the caller's context is done or the client is closed while the
\* receive routine runs, the routine eventually ends (and has closed ch),
\* whether or not the caller goes on reading ch.
C11_ReceiverTerminates ==
    ((ctxErr # "nil" \/ closed > 0) /\ recvPc \notin {"open", "failed"})
        ~> (recvPc = "exited" /\ chCloses = 1)

\* C12: on both exit paths of serverFunc's select (a signal was received, or
\* the serving routine's result was received first) rootCancel() has been
\* called before serverFunc returns; the result of the serving routine is
\* received exactly once, so its goroutine has finished its send; and on the
\* signal path the cancel precedes the wait for that result.
C12_GracefulShutdown ==
    /\ errcRecvs <= 1
    /\ (runPc = "done") <=> (errcRecvs = 1)
    /\ cmdPc = "sigRecv" => rootCancels = 1
    /\ (cmdPc = "returned" /\ cmdPath \in {"signal", "served"}) =>
          /\ rootCancels = 1
          /\ errcRecvs = 1
          /\ runPc = "done"
    /\ (cmdPc = "returned" /\ cmdPath = "served") => cmdErr = runErr

\* C12 witness: serverFunc has returned on the signal path
C12_Witness ==
    /\ cmdPc = "returned"
    /\ cmdPath = "signal"
    /\ sig = "SIGTERM"
    /\ runPc = "done"
    /\ rootCancels = 1

\* C13: no step taken while start() runs (launched, donec not yet closed)
\* makes a stop() caller fault, and the process does not exit on a panic.
C13_StopSafeDuringStart ==
    [][startPc \notin {"idle", "done"} =>
          /\ \A c \in Stoppers :
                stopPc[c] # "panicked" => stopPc'[c] # "panicked"
          /\ ~crashed']_vars

\* errors with which start() can fail
StartFailures == {"launch", "aborted", "deadline", "health", "nodes"}

\* C14: start() closes donec exactly once, as its last step on every exit
\* path; when it failed, exactly one error (its own) was put on errc before
\* donec was closed; when it succeeded, nothing was put on errc.
C14_DoneOnceErrorOnce ==
    /\ donec <= 1
    /\ (donec = 1) <=> (startPc = "done")
    /\ errcSends <= 1
    /\ Len(errc) = errcSends
    /\ startPc \in {"closeDonec", "done"} =>
          \/ startErr = "nil" /\ errc = <<>>
          \/ startErr \in StartFailures /\ errc = <<startErr>>
    /\ startPc \notin {"closeDonec", "done"} => errc = <<>>

\* C14 witness: start() ended with Aborted, one error on errc, donec closed
C14_Witness ==
    /\ startPc = "done"
    /\ donec = 1
    /\ startErr = "aborted"
    /\ errc = <<"aborted">>

\* C15: once stopc is closed no step closes readyc or writes a Uri or an Id
\* into the registry; and readyc and stopc, once closed, stay closed.
C15_NoHealthyAfterStop ==
    [][/\ stopc > 0 => /\ readyc' = readyc
                       /\ nodeInfos' = nodeInfos
       /\ readyc' >= readyc
       /\ stopc' >= stopc]_vars

\* C16: every stop() call that has reached the Once eventually returns,
\* whether start() was launched or not and whether it has finished or not.
C16_StopEventuallyReturns ==
    \A c \in Stoppers : (stopPc[c] = "do") ~> (stopPc[c] = "returned")

\* C17: in every state the list of node names has no duplicate, its elements
\* are exactly the keys of the registry, each entry carries its own name, and
\* the list is the one newNetwork built; no step changes the list or the key
\* set of the registry.
C17_NameSetFixed ==
    /\ [](/\ \A i, j \in 1..Len(nodeNames) : nodeNames[i] = nodeNames[j] => i = j
          /\ Names = DOMAIN nodeInfos
          /\ \A n \in DOMAIN nodeInfos : nodeInfos[n].Name = n
          /\ nodeNames = MakeNodeNames(Cardinality(DOMAIN nodeInfos)))
    /\ [][nodeNames' = nodeNames /\ DOMAIN nodeInfos' = DOMAIN nodeInfos]_vars

\* C17 witness: start() has published all nodes and a stop() call has returned
C17_Witness ==
    /\ Len(nodeNames) = MaxNodes
    /\ readyc = 1
    /\ apiClis = Names
    /\ \E c \in Stoppers : stopPc[c] = "returned"

\* C18: when waitForHealthy has returned Aborted, the deadline error or the
\* collaborator's health error, every Uri and Id of the registry is still
\* empty, apiClis and lc.nodes are as newNetwork left them and readyc is open;
\* readyc is closed at most once, and only by a waitForHealthy that returns nil.
C18_FailedWaitLeavesRegistry ==
    /\ startErr \in {"aborted", "deadline", "health"} =>
          /\ \A n \in DOMAIN nodeInfos :
                nodeInfos[n].Uri = "" /\ nodeInfos[n].Id = ""
          /\ apiClis = {}
          /\ nodes = {}
          /\ readyc = 0
          /\ readycCloseOnce = "fresh"
    /\ readyc <= 1
    /\ readyc = 1 => (startErr = "nil" /\ startPc \in {"closeDonec", "done"})

\* C18 witness: start() has ended on the collaborator's health error
C18_Witness ==
    /\ startErr = "health"
    /\ startPc = "done"
    /\ selReady = {"hc"}
    /\ readyc = 0

\* C19: nobody reads errc, and still whenever start() is at its send on errc
\* the buffer has a free slot, so the send does not block; start() makes at
\* most as many sends as errc has slots.
C19_ErrorSendNeverBlocks ==
    /\ startPc = "sendErr" => Len(errc) < ErrcCap
    /\ startPc = "sendErr" => errcSends = 0
    /\ errcSends <= ErrcCap

\* C19 witness: start() failed on the deadline, its error sits unread on errc
\* and donec is closed
C19_Witness ==
    /\ startPc = "done"
    /\ startErr = "deadline"
    /\ Len(errc) = ErrcCap
    /\ donec = 1

\* C20: what the caller has taken out of ch followed by what is pending in ch
\* is exactly what the routine has sent, which is what RecvMsg has returned,
\* in order and each once, except for the one snapshot the routine holds
\* while it is at its send; ch never holds more than one snapshot.
C20_DeliversExactlyReceived ==
    /\ Len(ch) <= ChCap
    /\ consumed \o ch = delivered
    /\ received = [i \in 1..Len(received) |-> i]
    /\ IF recvPc = "send"
          THEN received = Append(delivered, msg)
          ELSE received = delivered

\* C20 witness: two snapshots received and sent, the first taken by the
\* caller, the second pending, and the routine has ended
C20_Witness ==
    /\ recvPc = "exited"
    /\ received = <<1, 2>>
    /\ consumed = <<1>>
    /\ ch = <<2>>
====
